---- MODULE Spec2Model ----
(***************************************************************************)
(* Model of the two serverless handlers of gist-updater-script:            *)
(*   - the Aggregator   (src/api/data.js)                                  *)
(*   - the Secure Relay (src/unnamed/part_000)                             *)
(* Each handler is a state machine whose actions are the run-to-completion *)
(* segments of the async JavaScript code: the synchronous part of the      *)
(* handler up to its first await, and one segment per promise job.  In the *)
(* Aggregator the settlement of a helper's promise, the reaction of        *)
(* Promise.all to it, and the resumption of the handler are three jobs.    *)
(*                                                                         *)
(* Strings are sequences of tokens.  A token is either a literal of the    *)
(* source, kept whole, or one character of an input string.  Input         *)
(* characters are digits; no literal that reaches a Secure Relay response  *)
(* holds a digit, so "contains as a substring" on token sequences agrees   *)
(* with the same test on the JavaScript strings.                           *)
(***************************************************************************)
EXTENDS Integers, Sequences, FiniteSets, TLC

VARIABLES
    \* ---- Aggregator (src/api/data.js) ----
    aPc,        \* position of the handler: "idle", "awaitAll", "done"
    aReq,       \* the inbound request (its method)
    aHeaders,   \* headers set on the response object, in order of setting
    aTask,      \* the three promises handed to Promise.all
    aAll,       \* the promise Promise.all returned
    aJobs,      \* promise jobs queued and not yet run, first in first out
    aCalls,     \* outbound fetch calls issued, in order
    aResp,      \* responses sent, in order
    aLog,       \* console.error lines
    \* ---- Secure Relay (src/unnamed/part_000) ----
    rPc,        \* "idle", "awaitFetch", "awaitText", "awaitJson", "done"
    rReq,       \* the inbound request (method, body)
    apiKey,     \* process.env.GEMINI_API_KEY
    rUp,        \* geminiResponse, once fetch resolved
    rRead,      \* errorBody or data, once the upstream's body was read
    rCalls,     \* outbound fetch calls issued, in order
    rResp,      \* responses sent, in order
    rLog        \* console.error lines

aggVars == <<aPc, aReq, aHeaders, aTask, aAll, aJobs, aCalls, aResp, aLog>>
relayVars == <<rPc, rReq, apiKey, rUp, rRead, rCalls, rResp, rLog>>
vars == <<aPc, aReq, aHeaders, aTask, aAll, aJobs, aCalls, aResp, aLog,
          rPc, rReq, apiKey, rUp, rRead, rCalls, rResp, rLog>>

---------------------------------------------------------------------------
\* Bounds of the model

\* longest configured credential, in characters
MaxKeyLen == 2
\* longest error text the Gemini upstream answers with, in characters
MaxTextLen == 2
\* longest statusText an Aggregator upstream answers with, in characters
MaxStatusTextLen == 1

\* characters of input strings
Chars == {"0", "1"}

StringsUpTo(n) == UNION {[1..k -> Chars] : k \in 0..n}

---------------------------------------------------------------------------
\* JavaScript values.  Every value is a record with the same three fields:
\*   t  the type tag, s  the characters (string), digits (number), literal
\*   (boolean) or items (array), f  the own properties of an object as a
\*   sequence of <<name, value>> pairs in insertion order.

Undefined == [t |-> "undefined", s |-> <<>>, f |-> <<>>]
Null == [t |-> "null", s |-> <<>>, f |-> <<>>]
Str(s) == [t |-> "string", s |-> s, f |-> <<>>]
Num(d) == [t |-> "number", s |-> <<d>>, f |-> <<>>]
Bool(b) == [t |-> "boolean", s |-> <<b>>, f |-> <<>>]
Arr(items) == [t |-> "array", s |-> items, f |-> <<>>]
Obj(fields) == [t |-> "object", s |-> <<>>, f |-> fields]
\* an Error object; s is its message
Err(msg) == [t |-> "error", s |-> msg, f |-> <<>>]

\* JavaScript ToBoolean, as used by the ! operator
Truthy(v) ==
    CASE v.t = "undefined" -> FALSE
      [] v.t = "null" -> FALSE
      [] v.t = "string" -> Len(v.s) > 0
      [] v.t = "number" -> v.s # <<"0">>
      [] v.t = "boolean" -> v.s = <<"true">>
      [] OTHER -> TRUE

\* property read v.name on a value that is neither undefined nor null
Get(v, name) ==
    IF \E i \in 1..Len(v.f) : v.f[i][1] = name
    THEN LET i == CHOOSE j \in 1..Len(v.f) : v.f[j][1] = name IN v.f[i][2]
    ELSE Undefined

\* the own property names of a value
Fields(v) == {v.f[i][1] : i \in 1..Len(v.f)}

\* items joined by commas
RECURSIVE Join(_)
Join(parts) ==
    IF Len(parts) = 0 THEN <<>>
    ELSE IF Len(parts) = 1 THEN parts[1]
    ELSE parts[1] \o <<",">> \o Join(Tail(parts))

\* JSON.stringify of a value (response.json(v) and the outbound request body)
RECURSIVE JSONstringify(_)
JSONstringify(v) ==
    CASE v.t = "string" -> <<"\"">> \o v.s \o <<"\"">>
      [] v.t = "number" -> v.s
      [] v.t = "boolean" -> v.s
      [] v.t = "null" -> <<"null">>
      [] v.t = "array" -> <<"[">> \o Join([i \in 1..Len(v.s) |-> <<v.s[i]>>]) \o <<"]">>
      [] v.t = "object" ->
            LET kept == SelectSeq(v.f, LAMBDA p : p[2].t # "undefined")
            IN <<"{">> \o Join([i \in 1..Len(kept) |->
                                  <<"\"", kept[i][1], "\"", ":">> \o JSONstringify(kept[i][2])])
                       \o <<"}">>
      [] OTHER -> <<>>

\* sub occurs in text as a contiguous subsequence
Contains(text, sub) ==
    \E i \in 0..(Len(text) - Len(sub)) :
        \A j \in 1..Len(sub) : text[i + j] = sub[j]

---------------------------------------------------------------------------
\* The response object of the hosting platform

\* response.status(status).json(body), sent with the headers set so far
JsonResponse(status, body, headers) ==
    [status |-> status, body |-> body, headers |-> headers, how |-> "json"]

\* response.status(status).end(): no body
EndResponse(status, headers) ==
    [status |-> status, body |-> Undefined, headers |-> headers, how |-> "end"]

\* response.setHeader(name, value)
SetHeader(headers, name, value) ==
    SelectSeq(headers, LAMBDA h : h[1] # name) \o << <<name, value>> >>

\* the value of header name on a sent response, Undefined when not set
HeaderOf(resp, name) ==
    IF \E i \in 1..Len(resp.headers) : resp.headers[i][1] = name
    THEN LET i == CHOOSE j \in 1..Len(resp.headers) : resp.headers[j][1] = name
         IN Str(<<resp.headers[i][2]>>)
    ELSE Undefined

\* inbound methods
Methods == {"GET", "POST", "OPTIONS"}

\* messages of connection-level failures (fetch rejects)
NetworkErrors == {Err(<<"fetch failed">>), Err(<<"getaddrinfo ENOTFOUND">>)}

\* messages of body-read failures (response.json() / response.text() reject)
BodyErrors == {Err(<<"Unexpected token < in JSON at position 0">>)}

---------------------------------------------------------------------------
\* Secure Relay (src/unnamed/part_000)

\* values of the "contents" property the dashboard may send
ContentsVals ==
    {Null, Str(<<>>), Str(<<"0">>), Arr(<<>>), Arr(<<"1">>), Num("0"), Bool("false")}

\* request.body values
Bodies ==
    {Undefined, Null, Str(<<>>), Str(<<"1">>), Obj(<<>>),
     Obj(<< <<"prompt", Str(<<"1">>)>> >>),
     Obj(<< <<"contents", Arr(<<"1">>)>>, <<"generationConfig", Obj(<<>>)>> >>)}
    \cup {Obj(<< <<"contents", c>> >>) : c \in ContentsVals}

\* process.env.GEMINI_API_KEY: unset, or a string (possibly empty)
ApiKeys == {Undefined} \cup {Str(s) : s \in StringsUpTo(MaxKeyLen)}

\* status codes the Gemini upstream answers with; fetch resolves for any
\* final status, and Response.ok is false for every one outside 200..299
UpstreamStatuses == {200, 201, 304, 400, 404, 503}

\* what fetch resolves with: Response.ok is true exactly for 200..299
UpstreamResponses == {[ok |-> (st >= 200 /\ st <= 299), status |-> st] : st \in UpstreamStatuses}

\* error texts of the Gemini upstream
UpstreamTexts == StringsUpTo(MaxTextLen)

\* JSON bodies of the Gemini upstream
UpstreamJson ==
    {Obj(<< <<"candidates", Arr(<<>>)>> >>),
     Obj(<< <<"candidates", Arr(<<"0", "1">>)>> >>),
     Obj(<< <<"error", Str(<<"1">>)>> >>),
     Arr(<<"1">>), Str(<<"0">>), Null}

\* line 26: the upstream URL with the key as a query parameter
ApiUrl(key) ==
    <<"https://generativelanguage.googleapis.com/v1beta/models/gemini-2.5-flash-preview-05-20:generateContent?key=">>
        \o key.s

\* lines 30-36: the outbound call
GeminiCall(key, payload) ==
    [url |-> ApiUrl(key), method |-> "POST",
     headers |-> << <<"Content-Type", "application/json">> >>,
     body |-> JSONstringify(payload)]

\* line 8
MethodNotAllowed == JsonResponse(405, Obj(<< <<"error", Str(<<"Method Not Allowed">>)>> >>), <<>>)
\* line 15
InvalidBody == JsonResponse(400, Obj(<< <<"error", Str(<<"Invalid request body">>)>> >>), <<>>)
\* line 23
KeyNotConfigured ==
    JsonResponse(500, Obj(<< <<"error", Str(<<"API key not configured on the server.">>)>> >>), <<>>)
\* a forwarded error that answers 500 whatever the upstream's status
ForwardedErrorAs500(status, errorBody) ==
    JsonResponse(500, Obj(<< <<"error", Str(<<"Gemini API error: ">> \o errorBody)>> >>), <<>>)

\* line 42
ForwardedError(status, errorBody) ==
    JsonResponse(status, Obj(<< <<"error", Str(<<"Gemini API error: ">> \o errorBody)>> >>), <<>>)
\* a success response that wraps the upstream's JSON in a field
RelaySuccessWrapped(data) == JsonResponse(200, Obj(<< <<"data", data>> >>), <<>>)

\* line 47
RelaySuccess(data) == JsonResponse(200, data, <<>>)
\* line 51
RelayFailure == JsonResponse(500, Obj(<< <<"error", Str(<<"Failed to fetch from Gemini API.">>)>> >>), <<>>)

\* a method check that lets GET through as well
MethodCheckAllowsGet(method) == method \in {"POST", "GET"}

\* lines 7-9: only POST is allowed
MethodCheck(method) == method = "POST"

\* a payload check that only looks at the body, not at its "contents"
PayloadValidateBodyOnly(payload) == Truthy(payload)

\* lines 12-16: the body is present and has a truthy "contents"
PayloadValidate(payload) ==
    ~ (~Truthy(payload) \/ ~Truthy(Get(payload, "contents")))

\* a handler that does not check the key
CredentialResolveSkipped(key) == TRUE

\* lines 20-24: the key is configured
CredentialResolve(key) == Truthy(key)

RelaySend(resp) ==
    /\ rResp' = Append(rResp, resp)
    /\ rPc' = "done"

\* a handler that resolves the credential before it validates the payload
RelayInvokeKeyFirst(method, body) ==
    /\ rPc = "idle"
    /\ rReq' = [method |-> method, body |-> body]
    /\ IF ~MethodCheck(method)
       THEN RelaySend(MethodNotAllowed) /\ UNCHANGED rCalls
       ELSE IF ~CredentialResolve(apiKey)
       THEN RelaySend(KeyNotConfigured) /\ UNCHANGED rCalls
       ELSE IF ~PayloadValidate(body)
       THEN RelaySend(InvalidBody) /\ UNCHANGED rCalls
       ELSE /\ rCalls' = Append(rCalls, GeminiCall(apiKey, body))
            /\ rPc' = "awaitFetch"
            /\ UNCHANGED rResp
    /\ UNCHANGED <<apiKey, rUp, rRead, rLog>>
    /\ UNCHANGED aggVars

\* lines 5-36: the handler up to its first await
RelayInvoke(method, body) ==
    /\ rPc = "idle"
    /\ rReq' = [method |-> method, body |-> body]
    /\ IF ~MethodCheck(method)
       THEN RelaySend(MethodNotAllowed) /\ UNCHANGED rCalls
       ELSE IF ~PayloadValidate(body)
       THEN RelaySend(InvalidBody) /\ UNCHANGED rCalls
       ELSE IF ~CredentialResolve(apiKey)
       THEN RelaySend(KeyNotConfigured) /\ UNCHANGED rCalls
       ELSE /\ rCalls' = Append(rCalls, GeminiCall(apiKey, body))
            /\ rPc' = "awaitFetch"
            /\ UNCHANGED rResp
    /\ UNCHANGED <<apiKey, rUp, rRead, rLog>>
    /\ UNCHANGED aggVars

\* a catch block that hands the failure's message to the client
RelayCatchWithDetails(error) ==
    /\ rLog' = Append(rLog, <<"Error proxying request to Gemini:", error>>)
    /\ RelaySend(JsonResponse(500,
            Obj(<< <<"error", Str(<<"Failed to fetch from Gemini API.">>)>>,
                   <<"details", Str(error.s)>> >>), <<>>))
    /\ UNCHANGED <<rReq, apiKey, rUp, rRead, rCalls>>

\* a catch block that logs the failure and sends nothing
RelayCatchNoResponse(error) ==
    /\ rLog' = Append(rLog, <<"Error proxying request to Gemini:", error>>)
    /\ rPc' = "done"
    /\ UNCHANGED <<rReq, apiKey, rUp, rRead, rCalls, rResp>>

\* a catch block that logs the failure and issues the call once more
RelayCatchRetry(error) ==
    /\ rLog' = Append(rLog, <<"Error proxying request to Gemini:", error>>)
    /\ rCalls' = Append(rCalls, rCalls[1])
    /\ rPc' = "awaitFetch"
    /\ rUp' = <<>>
    /\ UNCHANGED <<rReq, apiKey, rRead, rResp>>

\* lines 49-52: the catch block
RelayCatch(error) ==
    /\ rLog' = Append(rLog, <<"Error proxying request to Gemini:", error>>)
    /\ RelaySend(RelayFailure)
    /\ UNCHANGED <<rReq, apiKey, rUp, rRead, rCalls>>

\* lines 30-40, 46: fetch resolved; the body is read as text or as JSON
RelayFetchResolve(resp) ==
    /\ rPc = "awaitFetch"
    /\ rUp' = <<resp>>
    /\ rPc' = IF ~resp.ok THEN "awaitText" ELSE "awaitJson"
    /\ UNCHANGED <<rReq, apiKey, rRead, rCalls, rResp, rLog>>
    /\ UNCHANGED aggVars

\* line 30: fetch itself threw
RelayFetchReject(error) ==
    /\ rPc = "awaitFetch"
    /\ RelayCatch(error)
    /\ UNCHANGED aggVars

\* lines 40-42: the upstream's error text is logged and forwarded
RelayTextResolve(errorBody) ==
    /\ rPc = "awaitText"
    /\ rRead' = <<Str(errorBody)>>
    /\ rLog' = Append(rLog, <<"Gemini API Error:", Str(errorBody)>>)
    /\ RelaySend(ForwardedError(rUp[1].status, errorBody))
    /\ UNCHANGED <<rReq, apiKey, rUp, rCalls>>
    /\ UNCHANGED aggVars

\* line 40: reading the error text failed
RelayTextReject(error) ==
    /\ rPc = "awaitText"
    /\ RelayCatch(error)
    /\ UNCHANGED aggVars

\* lines 46-47: the upstream's JSON is sent back
RelayJsonResolve(data) ==
    /\ rPc = "awaitJson"
    /\ rRead' = <<data>>
    /\ RelaySend(RelaySuccess(data))
    /\ UNCHANGED <<rReq, apiKey, rUp, rCalls, rLog>>
    /\ UNCHANGED aggVars

\* line 46: the upstream's body is no JSON
RelayJsonReject(error) ==
    /\ rPc = "awaitJson"
    /\ RelayCatch(error)
    /\ UNCHANGED aggVars

RelayIdle ==
    /\ rPc = "idle"
    /\ rReq = [method |-> "", body |-> Undefined]
    /\ rUp = <<>>
    /\ rRead = <<>>
    /\ rCalls = <<>>
    /\ rResp = <<>>
    /\ rLog = <<>>

RelayConfigured ==
    /\ RelayIdle
    /\ apiKey \in ApiKeys

NextRelay ==
    \/ \E m \in Methods, b \in Bodies : RelayInvoke(m, b)
    \/ \E r \in UpstreamResponses : RelayFetchResolve(r)
    \/ \E e \in NetworkErrors : RelayFetchReject(e)
    \/ \E t \in UpstreamTexts : RelayTextResolve(t)
    \/ \E e \in BodyErrors : RelayTextReject(e)
    \/ \E d \in UpstreamJson : RelayJsonResolve(d)
    \/ \E e \in BodyErrors : RelayJsonReject(e)

---------------------------------------------------------------------------
\* Aggregator (src/api/data.js)

\* line 4
API_BASE == "https://api.koios.rest/api/v1"
\* line 5
SPO_DATA_URL == "https://gist.githubusercontent.com/Thomas-nada/7b742a3ca9e42281ae831b3da689c0b5/raw/fcf93ff7fae331a329f2ed69267bdf44e29f021e/governance-report.csv"
\* line 6
DREP_DATA_URL == "https://gist.githubusercontent.com/Thomas-nada/28f6ba461017efcb5ab942964776923e/raw/509ad05637b91d228b2bf0b6e26cd38d9641dd4d/drep_directory.json"

\* lines 41-43: the three calls handed to Promise.all, in list order
Sources ==
    << [helper |-> "fetchText", url |-> <<SPO_DATA_URL>>],
       [helper |-> "fetchJson", url |-> <<DREP_DATA_URL>>],
       [helper |-> "fetchJson", url |-> <<API_BASE, "/proposal_list">>] >>

Tasks == 1..3

\* what fetch resolves with for an Aggregator upstream
SourceResponses == [ok : BOOLEAN, statusText : StringsUpTo(MaxStatusTextLen)]

\* bodies response.text() resolves with
CsvTexts == {Str(<<"0">>), Str(<<"1">>)}

\* bodies response.json() resolves with
SourceJson == {Arr(<<>>), Arr(<<"1">>)}

\* the bodies the body read of task i may resolve with
BodiesOf(i) == IF Sources[i].helper = "fetchText" THEN CsvTexts ELSE SourceJson

\* lines 12 and 21: the Error thrown for a non-success status
FetchFailed(url, statusText) == Err(<<"Failed to fetch ">> \o url \o <<": ">> \o statusText)

\* line 40: the promise of Promise.all before any of the three has been
\* seen to settle; left counts the promises whose value is still missing
Pending == [st |-> "pending", val |-> <<>>, left |-> 3]

\* line 40: the job Promise.all registered on promise i of the list
ReactJob(i) == [job |-> "react", task |-> i]

\* line 40: the job await registered on the promise of Promise.all
ResumeJob == [job |-> "resume", task |-> 0]

\* lines 30-32: the three CORS headers
CorsHeaders(headers) ==
    SetHeader(SetHeader(SetHeader(headers,
        "Access-Control-Allow-Origin", "*"),
        "Access-Control-Allow-Methods", "GET, OPTIONS"),
        "Access-Control-Allow-Headers", "Content-Type")

\* a payload that hands the two JSON values to each other's field
AggregatedPayloadSwapped(values) ==
    Obj(<< <<"spoDataCsv", values[1]>>, <<"drepData", values[3]>>, <<"proposalList", values[2]>> >>)

\* lines 47-51: the combined payload, fields in the order written
AggregatedPayload(values) ==
    Obj(<< <<"spoDataCsv", values[1]>>, <<"drepData", values[2]>>, <<"proposalList", values[3]>> >>)

\* a failure body with the generic message alone
AggFailureGeneric(error) ==
    Obj(<< <<"error", Str(<<"Failed to fetch initial data.">>)>> >>)

\* line 55: the failure body
AggFailure(error) ==
    Obj(<< <<"error", Str(<<"Failed to fetch initial data.">>)>>, <<"details", Str(error.s)>> >>)

\* a join that waits for every promise and fulfils with whatever each
\* settled with, as Promise.allSettled would
PromiseAllSettled(all, tasks, i) ==
    IF all.left = 1
    THEN [st |-> "fulfilled", val |-> [j \in Tasks |-> tasks[j].val], left |-> 0]
    ELSE [all EXCEPT !.left = all.left - 1]

\* a join that settles with the first promise to settle, as Promise.race
\* would: fulfilled as soon as one value is there
PromiseRace(all, tasks, i) ==
    IF all.st # "pending" THEN all
    ELSE IF tasks[i].st = "rejected"
         THEN [st |-> "rejected", val |-> <<tasks[i].val>>, left |-> all.left]
    ELSE [st |-> "fulfilled", val |-> [j \in Tasks |-> tasks[j].val], left |-> all.left - 1]

\* a join that reports the failure of the call that stands first in the
\* list, whichever failed first
PromiseAllByPosition(all, tasks, i) ==
    IF tasks[i].st = "rejected"
    THEN IF all.st # "pending" THEN all
         ELSE LET first == CHOOSE j \in Tasks :
                               /\ tasks[j].st = "rejected"
                               /\ \A k \in Tasks : tasks[k].st = "rejected" => j <= k
              IN [st |-> "rejected", val |-> <<tasks[first].val>>, left |-> all.left]
    ELSE IF all.st = "pending" /\ all.left = 1
         THEN [st |-> "fulfilled", val |-> [j \in Tasks |-> tasks[j].val], left |-> 0]
    ELSE [all EXCEPT !.left = all.left - 1]

\* line 40: Promise.all when the job it registered on promise i runs.  A
\* rejection rejects the joined promise unless it is settled already.  A
\* value is stored and counted, and the last of the three values fulfils
\* the joined promise with all of them, in list order.
PromiseAll(all, tasks, i) ==
    IF tasks[i].st = "rejected"
    THEN IF all.st # "pending" THEN all
         ELSE [st |-> "rejected", val |-> <<tasks[i].val>>, left |-> all.left]
    ELSE IF all.st = "pending" /\ all.left = 1
         THEN [st |-> "fulfilled", val |-> [j \in Tasks |-> tasks[j].val], left |-> 0]
    ELSE [all EXCEPT !.left = all.left - 1]

\* lines 12, 14, 21, 23: the promise of helper i settles; the job
\* Promise.all registered on it is queued and runs later
Settle(i, st, val) ==
    /\ aTask' = [aTask EXCEPT ![i] = [st |-> st, val |-> val]]
    /\ aJobs' = Append(aJobs, ReactJob(i))
    /\ UNCHANGED aAll

AggSend(resp) ==
    /\ aResp' = Append(aResp, resp)
    /\ aPc' = "done"

\* a handler that answers the preflight before it sets the headers
AggInvokePreflightFirst(method) ==
    /\ aPc = "idle"
    /\ aReq' = [method |-> method]
    /\ aHeaders' = CorsHeaders(aHeaders)
    /\ IF method = "OPTIONS"
       THEN /\ AggSend(EndResponse(200, aHeaders))
            /\ UNCHANGED <<aTask, aAll, aCalls>>
       ELSE /\ aCalls' = aCalls \o [i \in Tasks |-> Sources[i].url]
            /\ aTask' = [i \in Tasks |-> [st |-> "fetching", val |-> Undefined]]
            /\ aAll' = Pending
            /\ aPc' = "awaitAll"
            /\ UNCHANGED aResp
    /\ UNCHANGED <<aJobs, aLog>>
    /\ UNCHANGED relayVars

\* a handler without the preflight branch: OPTIONS is processed like GET
AggInvokeNoPreflight(method) ==
    /\ aPc = "idle"
    /\ aReq' = [method |-> method]
    /\ aHeaders' = CorsHeaders(aHeaders)
    /\ aCalls' = aCalls \o [i \in Tasks |-> Sources[i].url]
    /\ aTask' = [i \in Tasks |-> [st |-> "fetching", val |-> Undefined]]
    /\ aAll' = Pending
    /\ aPc' = "awaitAll"
    /\ UNCHANGED <<aJobs, aResp, aLog>>
    /\ UNCHANGED relayVars

\* a handler that awaits each helper before it calls the next: only the
\* first call is issued before the handler waits
AggInvokeSequential(method) ==
    /\ aPc = "idle"
    /\ aReq' = [method |-> method]
    /\ aHeaders' = CorsHeaders(aHeaders)
    /\ IF method = "OPTIONS"
       THEN /\ AggSend(EndResponse(200, aHeaders'))
            /\ UNCHANGED <<aTask, aAll, aCalls>>
       ELSE /\ aCalls' = Append(aCalls, Sources[1].url)
            /\ aTask' = [aTask EXCEPT ![1] = [st |-> "fetching", val |-> Undefined]]
            /\ aAll' = Pending
            /\ aPc' = "awaitAll"
            /\ UNCHANGED aResp
    /\ UNCHANGED <<aJobs, aLog>>
    /\ UNCHANGED relayVars

\* lines 28-44: the handler up to its await; each helper runs up to its
\* own await fetch(url), so the three calls are issued in list order
AggInvoke(method) ==
    /\ aPc = "idle"
    /\ aReq' = [method |-> method]
    /\ aHeaders' = CorsHeaders(aHeaders)
    /\ IF method = "OPTIONS"
       THEN /\ AggSend(EndResponse(200, aHeaders'))
            /\ UNCHANGED <<aTask, aAll, aCalls>>
       ELSE /\ aCalls' = aCalls \o [i \in Tasks |-> Sources[i].url]
            /\ aTask' = [i \in Tasks |-> [st |-> "fetching", val |-> Undefined]]
            /\ aAll' = Pending
            /\ aPc' = "awaitAll"
            /\ UNCHANGED aResp
    /\ UNCHANGED <<aJobs, aLog>>
    /\ UNCHANGED relayVars

\* lines 10-14, 19-23: fetch of source i resolved and the helper goes on;
\* a non-success status throws, which rejects the helper's promise,
\* otherwise the body read starts
AggFetchResolve(i, resp) ==
    /\ aTask[i].st = "fetching"
    /\ IF ~resp.ok
       THEN Settle(i, "rejected", FetchFailed(Sources[i].url, resp.statusText))
       ELSE /\ aTask' = [aTask EXCEPT ![i] = [st |-> "reading", val |-> Undefined]]
            /\ UNCHANGED <<aAll, aJobs>>
    /\ UNCHANGED <<aPc, aReq, aHeaders, aCalls, aResp, aLog>>
    /\ UNCHANGED relayVars

\* lines 10, 19: fetch of source i threw, which rejects the helper's promise
AggFetchReject(i, error) ==
    /\ aTask[i].st = "fetching"
    /\ Settle(i, "rejected", error)
    /\ UNCHANGED <<aPc, aReq, aHeaders, aCalls, aResp, aLog>>
    /\ UNCHANGED relayVars

\* lines 14, 23: the body of source i was read, which fulfils the helper's
\* promise
AggBodyResolve(i, value) ==
    /\ aTask[i].st = "reading"
    /\ Settle(i, "fulfilled", value)
    /\ UNCHANGED <<aPc, aReq, aHeaders, aCalls, aResp, aLog>>
    /\ UNCHANGED relayVars

\* lines 14, 23: reading or parsing the body of source i failed, which
\* rejects the helper's promise
AggBodyReject(i, error) ==
    /\ aTask[i].st = "reading"
    /\ Settle(i, "rejected", error)
    /\ UNCHANGED <<aPc, aReq, aHeaders, aCalls, aResp, aLog>>
    /\ UNCHANGED relayVars

\* line 40: the job Promise.all registered on a promise of the list runs.
\* When it settles the joined promise, the handler's continuation is queued.
AggJoinReact ==
    /\ aJobs # <<>>
    /\ Head(aJobs).job = "react"
    /\ aAll' = PromiseAll(aAll, aTask, Head(aJobs).task)
    /\ aJobs' = IF aAll.st = "pending" /\ aAll'.st # "pending"
                THEN Append(Tail(aJobs), ResumeJob)
                ELSE Tail(aJobs)
    /\ UNCHANGED <<aPc, aReq, aHeaders, aTask, aCalls, aResp, aLog>>
    /\ UNCHANGED relayVars

\* a handler whose catch block answers and then falls through to the
\* success response
AggResumeFallThrough ==
    /\ aPc = "awaitAll"
    /\ aJobs # <<>>
    /\ Head(aJobs) = ResumeJob
    /\ aJobs' = Tail(aJobs)
    /\ IF aAll.st = "fulfilled"
       THEN /\ AggSend(JsonResponse(200, AggregatedPayload(aAll.val), aHeaders))
            /\ UNCHANGED aLog
       ELSE /\ aLog' = Append(aLog, <<"Error fetching initial data:", aAll.val[1]>>)
            /\ aResp' = aResp \o << JsonResponse(500, AggFailure(aAll.val[1]), aHeaders),
                                    JsonResponse(200, Obj(<<>>), aHeaders) >>
            /\ aPc' = "done"
    /\ UNCHANGED <<aReq, aHeaders, aTask, aAll, aCalls>>
    /\ UNCHANGED relayVars

\* lines 40-56: the handler resumes from await once Promise.all has settled,
\* in the job that settlement queued
AggResume ==
    /\ aPc = "awaitAll"
    /\ aJobs # <<>>
    /\ Head(aJobs) = ResumeJob
    /\ aJobs' = Tail(aJobs)
    /\ IF aAll.st = "fulfilled"
       THEN /\ AggSend(JsonResponse(200, AggregatedPayload(aAll.val), aHeaders))
            /\ UNCHANGED aLog
       ELSE /\ aLog' = Append(aLog, <<"Error fetching initial data:", aAll.val[1]>>)
            /\ AggSend(JsonResponse(500, AggFailure(aAll.val[1]), aHeaders))
    /\ UNCHANGED <<aReq, aHeaders, aTask, aAll, aCalls>>
    /\ UNCHANGED relayVars

AggIdle ==
    /\ aPc = "idle"
    /\ aReq = [method |-> ""]
    /\ aHeaders = <<>>
    /\ aTask = [i \in Tasks |-> [st |-> "none", val |-> Undefined]]
    /\ aAll = Pending
    /\ aJobs = <<>>
    /\ aCalls = <<>>
    /\ aResp = <<>>
    /\ aLog = <<>>

\* the Aggregator's process: the Secure Relay is not part of it
InitAggregator ==
    /\ AggIdle
    /\ RelayIdle
    /\ apiKey = Undefined

\* the Secure Relay's process, with the environment it is deployed in
InitRelay ==
    /\ RelayConfigured
    /\ AggIdle

NextAggregator ==
    \/ \E m \in Methods : AggInvoke(m)
    \/ \E i \in Tasks, r \in SourceResponses : AggFetchResolve(i, r)
    \/ \E i \in Tasks, e \in NetworkErrors : AggFetchReject(i, e)
    \/ \E i \in Tasks : \E v \in BodiesOf(i) : AggBodyResolve(i, v)
    \/ \E i \in Tasks, e \in BodyErrors : AggBodyReject(i, e)
    \/ AggJoinReact
    \/ AggResume

\* the Aggregator alone
SpecAggregator == InitAggregator /\ [][NextAggregator]_vars

\* the Secure Relay alone
SpecRelay == InitRelay /\ [][NextRelay]_vars

\* One invocation of one of the two handlers.  The handlers are separate
\* functions that share no state, so a behaviour follows the invocation of
\* either one.  The Aggregator never reads the credential: its invocation
\* is followed in the environment without one.
AggregatorStep == RelayIdle /\ apiKey = Undefined /\ NextAggregator

RelayStep == AggIdle /\ NextRelay

Init == InitRelay

Next == AggregatorStep \/ RelayStep

\* an outbound call of the Aggregator settles, at either of its two awaits
AggSettle ==
    \/ \E i \in Tasks, r \in SourceResponses : AggFetchResolve(i, r)
    \/ \E i \in Tasks, e \in NetworkErrors : AggFetchReject(i, e)
    \/ \E i \in Tasks : \E v \in BodiesOf(i) : AggBodyResolve(i, v)
    \/ \E i \in Tasks, e \in BodyErrors : AggBodyReject(i, e)

\* the outbound call of the Secure Relay settles, at any of its awaits
RelaySettle ==
    \/ \E r \in UpstreamResponses : RelayFetchResolve(r)
    \/ \E e \in NetworkErrors : RelayFetchReject(e)
    \/ \E t \in UpstreamTexts : RelayTextResolve(t)
    \/ \E e \in BodyErrors : RelayTextReject(e)
    \/ \E d \in UpstreamJson : RelayJsonResolve(d)
    \/ \E e \in BodyErrors : RelayJsonReject(e)

\* Every outbound call that was issued settles, and the event loop runs
\* every promise job that was queued.
Fairness ==
    /\ WF_vars(AggSettle)
    /\ WF_vars(AggJoinReact)
    /\ WF_vars(AggResume)
    /\ WF_vars(RelaySettle)

Spec == Init /\ [][Next]_vars

\* Spec, with every issued call settling
FairSpec == Spec /\ Fairness

---------------------------------------------------------------------------
\* Properties of the Aggregator, checked under SpecAggregator

PayloadFields == {"spoDataCsv", "drepData", "proposalList"}

\* an upstream call failed: its promise was rejected (non-success status,
\* fetch threw, or the body read failed)
Failed(i) == aTask[i].st = "rejected"

\* C1: all-or-nothing.  On a non-OPTIONS invocation in which at least one of
\* the three upstream calls failed, every response sent has status 500 and
\* none of the fields spoDataCsv, drepData, proposalList; and no response
\* ever carries a proper subset of those three fields.
C1_AllOrNothing ==
    \A k \in 1..Len(aResp) :
        /\ (aReq.method # "OPTIONS" /\ \E i \in Tasks : Failed(i))
              => /\ aResp[k].status = 500
                 /\ Fields(aResp[k].body) \cap PayloadFields = {}
        /\ Fields(aResp[k].body) \cap PayloadFields \in {{}, PayloadFields}

\* C1 witness: a response was sent while one call had failed and another
\* had already delivered its value.
C1_Witness ==
    /\ Len(aResp) = 1
    /\ aResp[1].status = 500
    /\ \E i, j \in Tasks : Failed(i) /\ aTask[j].st = "fulfilled"

\* C2: success path.  A response to a non-OPTIONS invocation has status 200
\* if and only if all three upstream calls completed successfully, and then
\* its body has exactly the fields spoDataCsv, drepData, proposalList, each
\* equal to the value its own upstream returned, the CSV as a string.
C2_SuccessPath ==
    \A k \in 1..Len(aResp) :
        aReq.method # "OPTIONS" =>
            /\ aResp[k].status = 200 <=> (\A i \in Tasks : aTask[i].st = "fulfilled")
            /\ aResp[k].status = 200 =>
                  /\ aResp[k].how = "json"
                  /\ Len(aResp[k].body.f) = 3
                  /\ Fields(aResp[k].body) = PayloadFields
                  /\ Get(aResp[k].body, "spoDataCsv") = aTask[1].val
                  /\ Get(aResp[k].body, "spoDataCsv").t = "string"
                  /\ Get(aResp[k].body, "drepData") = aTask[2].val
                  /\ Get(aResp[k].body, "proposalList") = aTask[3].val

\* C2 witness: a 200 was sent for a GET whose two JSON upstreams returned
\* different values.
C2_Witness ==
    /\ Len(aResp) = 1
    /\ aReq.method = "GET"
    /\ aResp[1].status = 200
    /\ aTask[2].val # aTask[3].val

\* C10: every response the Aggregator sends carries the three CORS headers,
\* set on the response before it was sent.
C10_CorsOnEveryResponse ==
    \A k \in 1..Len(aResp) :
        /\ HeaderOf(aResp[k], "Access-Control-Allow-Origin") = Str(<<"*">>)
        /\ HeaderOf(aResp[k], "Access-Control-Allow-Methods") = Str(<<"GET, OPTIONS">>)
        /\ HeaderOf(aResp[k], "Access-Control-Allow-Headers") = Str(<<"Content-Type">>)

\* C10 witness: the failure path has answered with a 500.
C10_Witness ==
    /\ Len(aResp) = 1
    /\ aResp[1].status = 500
    /\ aResp[1].how = "json"

---------------------------------------------------------------------------
\* Properties of the Secure Relay, checked under SpecRelay

\* the body {error: message}
ErrorBody(message) == Obj(<< <<"error", Str(message)>> >>)

\* the request passed the three checks: the outbound call was made
Forwarded == Len(rCalls) = 1

\* C3: credential confidentiality.  Whenever a credential is configured, no
\* response body sent to the client contains it, on any code path and for
\* any upstream response.
C3_CredentialNeverInBody ==
    Truthy(apiKey) =>
        \A k \in 1..Len(rResp) : ~Contains(JSONstringify(rResp[k].body), apiKey.s)

\* C4: MethodCheck.  For every inbound method other than POST, whatever the
\* body and the credential, the response is 405 {error: 'Method Not
\* Allowed'} and no outbound call is made.
C4_MethodCheck ==
    (rPc # "idle" /\ rReq.method # "POST") =>
        /\ rPc = "done"
        /\ Len(rResp) = 1
        /\ rResp[1].status = 405
        /\ rResp[1].body = ErrorBody(<<"Method Not Allowed">>)
        /\ rCalls = <<>>

\* C4 witness: a GET with a valid body and a configured credential got 405.
C4_Witness ==
    /\ rPc = "done"
    /\ rReq.method = "GET"
    /\ Truthy(Get(rReq.body, "contents"))
    /\ Truthy(apiKey)
    /\ rResp[1].status = 405

\* the body is absent, or has no "contents" field
NoContents(body) == body.t \in {"undefined", "null"} \/ "contents" \notin Fields(body)

\* C5: PayloadValidate.  For a POST whose body is absent or has no
\* "contents" field, the response is 400 {error: 'Invalid request body'}
\* and no outbound call is made.
C5_PayloadValidate ==
    (rPc # "idle" /\ rReq.method = "POST" /\ NoContents(rReq.body)) =>
        /\ rPc = "done"
        /\ Len(rResp) = 1
        /\ rResp[1].status = 400
        /\ rResp[1].body = ErrorBody(<<"Invalid request body">>)
        /\ rCalls = <<>>

\* C5 witness: a POST of {} with a configured credential got 400.
C5_Witness ==
    /\ rPc = "done"
    /\ rReq.method = "POST"
    /\ rReq.body = Obj(<<>>)
    /\ Truthy(apiKey)
    /\ rResp[1].status = 400

\* C6: CredentialResolve.  For a POST with a valid body when the credential
\* is absent, the response is 500 {error: 'API key not configured on the
\* server.'} and no outbound call is made.
C6_CredentialResolve ==
    (rPc # "idle" /\ rReq.method = "POST" /\ ~NoContents(rReq.body)
        /\ Truthy(Get(rReq.body, "contents")) /\ apiKey = Undefined) =>
        /\ rPc = "done"
        /\ Len(rResp) = 1
        /\ rResp[1].status = 500
        /\ rResp[1].body = ErrorBody(<<"API key not configured on the server.">>)
        /\ rCalls = <<>>

\* C6 witness: a POST with non-empty contents and no credential got 500.
C6_Witness ==
    /\ rPc = "done"
    /\ rReq.method = "POST"
    /\ rReq.body = Obj(<< <<"contents", Arr(<<"1">>)>> >>)
    /\ apiKey = Undefined
    /\ rResp[1].status = 500

\* C7: upstream error forwarding.  When the request passed all checks and
\* the upstream answered with a non-success status s and error text t, the
\* response has status s and body {error: 'Gemini API error: ' + t}.
C7_ErrorForwarded ==
    (Forwarded /\ rUp # <<>> /\ rRead # <<>> /\ ~rUp[1].ok) =>
        /\ rPc = "done"
        /\ Len(rResp) = 1
        /\ rResp[1].status = rUp[1].status
        /\ rResp[1].body = ErrorBody(<<"Gemini API error: ">> \o rRead[1].s)

\* C7 witness: the upstream answered 503 with a two-character text, and the
\* client got a 503.
C7_Witness ==
    /\ rPc = "done"
    /\ rUp # <<>> /\ rUp[1].status = 503
    /\ rRead # <<>> /\ Len(rRead[1].s) = 2
    /\ rResp[1].status = 503

\* C8: success.  When the request passed all checks and the upstream
\* answered with a success status and a JSON body b, the response has
\* status 200 and body b.
C8_SuccessRelayed ==
    (Forwarded /\ rUp # <<>> /\ rRead # <<>> /\ rUp[1].ok) =>
        /\ rPc = "done"
        /\ Len(rResp) = 1
        /\ rResp[1].status = 200
        /\ rResp[1].body = rRead[1]

\* C8 witness: the upstream answered 201 with {candidates: [...]} and the
\* client got a 200.
C8_Witness ==
    /\ rPc = "done"
    /\ rUp # <<>> /\ rUp[1].status = 201
    /\ rRead = << Obj(<< <<"candidates", Arr(<<"0", "1">>)>> >>) >>
    /\ rResp[1].status = 200

\* the outbound call threw: the handler is done, and fetch never resolved
FetchThrew == Forwarded /\ rPc = "done" /\ rUp = <<>>

\* C9: network failure.  When the outbound call itself throws, the response
\* is 500 with body exactly {error: 'Failed to fetch from Gemini API.'};
\* the failure is written to the server-side log and its message is no part
\* of the response.
C9_NetworkFailure ==
    FetchThrew =>
        /\ Len(rResp) = 1
        /\ rResp[1].status = 500
        /\ rResp[1].body = ErrorBody(<<"Failed to fetch from Gemini API.">>)
        /\ Len(rLog) = 1
        /\ rLog[1][1] = "Error proxying request to Gemini:"
        /\ rLog[1][2] \in NetworkErrors
        /\ ~Contains(JSONstringify(rResp[1].body), rLog[1][2].s)

\* C9 witness: fetch threw and the handler answered.
C9_Witness ==
    /\ FetchThrew
    /\ rLog[1][2] = Err(<<"getaddrinfo ENOTFOUND">>)
    /\ Len(rResp) = 1

---------------------------------------------------------------------------
\* Further properties of the Aggregator, checked under SpecAggregator

\* C11: preflight.  An OPTIONS request is answered with status 200 and an
\* empty body in the handler's first segment, and none of the three
\* outbound calls is ever issued for it.
C11_Preflight ==
    (aPc # "idle" /\ aReq.method = "OPTIONS") =>
        /\ aPc = "done"
        /\ Len(aResp) = 1
        /\ aResp[1].status = 200
        /\ aResp[1].how = "end"
        /\ aResp[1].body = Undefined
        /\ aCalls = <<>>
        /\ \A i \in Tasks : aTask[i].st = "none"

\* C11 witness: an OPTIONS request was answered.
C11_Witness ==
    /\ aReq.method = "OPTIONS"
    /\ Len(aResp) = 1
    /\ aResp[1].status = 200

\* the join was rejected by a connection-level failure, and the handler has
\* answered
NetworkFailureAnswered ==
    /\ Len(aResp) = 1
    /\ aAll.st = "rejected"
    /\ aAll.val[1] \in NetworkErrors

\* C13 as claimed: when an outbound call of the Aggregator fails at the
\* connection level, the response is a 500 whose body does not contain the
\* failure's message; the message goes to the server-side log only.
C13_NetworkFailureGeneric ==
    NetworkFailureAnswered =>
        /\ aResp[1].status = 500
        /\ ~Contains(JSONstringify(aResp[1].body), aAll.val[1].s)
        /\ aLog = << <<"Error fetching initial data:", aAll.val[1]>> >>

\* C13 as amended: when an outbound call of the Aggregator fails at the
\* connection level, the response is a 500 whose body is the generic error
\* 'Failed to fetch initial data.' together with the failure's message in
\* the field details; the failure is also written to the server-side log.
C13_NetworkFailureDetails ==
    NetworkFailureAnswered =>
        /\ aResp[1].status = 500
        /\ aResp[1].how = "json"
        /\ Fields(aResp[1].body) = {"error", "details"}
        /\ Get(aResp[1].body, "error") = Str(<<"Failed to fetch initial data.">>)
        /\ Get(aResp[1].body, "details") = Str(aAll.val[1].s)
        /\ aLog = << <<"Error fetching initial data:", aAll.val[1]>> >>

\* C13 witness: a fetch threw ENOTFOUND and the handler answered.
C13_Witness ==
    /\ NetworkFailureAnswered
    /\ aAll.val[1] = Err(<<"getaddrinfo ENOTFOUND">>)
    /\ aResp[1].status = 500

\* outbound call i has settled: its promise is fulfilled or rejected
Settled(i) == aTask[i].st \in {"fulfilled", "rejected"}

\* C16 as claimed: on a non-OPTIONS invocation the response is sent only
\* after all three outbound calls have settled.
C16_ResponseAfterAllSettled ==
    (Len(aResp) >= 1 /\ aReq.method # "OPTIONS") => \A i \in Tasks : Settled(i)

\* C16 as amended: on a non-OPTIONS invocation the 200 is sent only after
\* all three outbound calls have succeeded, and the 500 only after a call
\* has failed; it is sent after the first failure, whether or not the other
\* calls have settled.  No response is sent while a call is pending and
\* none has failed.
C16_ResponseAfterJoin ==
    (Len(aResp) >= 1 /\ aReq.method # "OPTIONS") =>
        \/ (aResp[1].status = 200 /\ \A i \in Tasks : aTask[i].st = "fulfilled")
        \/ (aResp[1].status = 500 /\ \E i \in Tasks : Failed(i))

\* C16 witness: the 500 was sent while another call was still in flight.
C16_Witness ==
    /\ Len(aResp) = 1
    /\ aResp[1].status = 500
    /\ \E i \in Tasks : Failed(i)
    /\ \E j \in Tasks : aTask[j].st = "fetching"

\* C17: fan-out.  On a non-OPTIONS invocation all three outbound calls are
\* issued, in list order, before the handler waits on any of them: from the
\* first state in which the handler waits, each source has been called,
\* whatever happens to the other two calls.
C17_FanOut ==
    (aPc # "idle" /\ aReq.method # "OPTIONS") =>
        /\ Len(aCalls) = 3
        /\ \A i \in Tasks : aCalls[i] = Sources[i].url
        /\ \A i \in Tasks : aTask[i].st # "none"

\* C17 witness: the first call failed, and the third call was issued and
\* has delivered its value all the same.
C17_Witness ==
    /\ Failed(1)
    /\ aAll.st = "rejected"
    /\ aTask[3].st = "fulfilled"
    /\ aCalls[3] = Sources[3].url

\* call i has failed and no other call has: call i is the first to fail.
\* Calls fail one at a time, so every invocation in which a call fails
\* passes through a state in which the first call to fail is the only one.
OnlyFailed(i) == \A k \in Tasks : Failed(k) <=> k = i

\* C19: the first failure is reported.  From the state in which call i is
\* the first to have failed, the join is never fulfilled; whenever it is
\* rejected it reports the failure of call i, whichever calls fail after
\* it and whatever their positions in the list; and the one response sent
\* is the 500 that carries the message of call i as details.
C19_FirstFailureReported ==
    \A i \in Tasks :
        [](OnlyFailed(i) =>
              [](/\ aAll.st # "fulfilled"
                 /\ aAll.st = "rejected" => aAll.val = <<aTask[i].val>>
                 /\ Len(aResp) <= 1
                 /\ Len(aResp) = 1 =>
                       /\ aResp[1].status = 500
                       /\ Get(aResp[1].body, "details") = Str(aTask[i].val.s)))

\* C19 witness: the third call failed first and the first call failed after
\* it with another message; the 500 carries the third call's message.
C19_Witness ==
    /\ Len(aResp) = 1
    /\ aResp[1].status = 500
    /\ Failed(1) /\ Failed(3)
    /\ aTask[1].val # aTask[3].val
    /\ aAll.val = <<aTask[3].val>>
    /\ Get(aResp[1].body, "details") = Str(aTask[3].val.s)

---------------------------------------------------------------------------
\* Further properties of the Secure Relay, checked under SpecRelay

\* a value is empty: absent, or a string or list with nothing in it
IsEmpty(v) ==
    \/ v.t \in {"undefined", "null"}
    \/ (v.t \in {"string", "array"} /\ Len(v.s) = 0)

\* C14: only non-empty contents are forwarded.  The outbound call is made
\* only for request bodies whose "contents" field is present and non-empty;
\* a POST whose "contents" is an empty list or an empty string is never
\* forwarded.
C14_OnlyNonEmptyForwarded ==
    Forwarded =>
        /\ ~NoContents(rReq.body)
        /\ ~IsEmpty(Get(rReq.body, "contents"))

\* the first response the Secure Relay sent has this status and error text
Answered(status, message) ==
    /\ Len(rResp) >= 1
    /\ rResp[1].status = status
    /\ rResp[1].body = ErrorBody(message)

\* C18: check precedence.  The first failing check decides the response:
\* a non-POST request gets 405 whatever its body and the credential, a POST
\* with an invalid body gets 400 whether or not a credential is configured,
\* the missing-credential 500 is sent only to a POST with contents, and the
\* outbound call is made only for a POST with contents under a configured
\* credential, which its URL carries.
C18_CheckPrecedence ==
    rPc # "idle" =>
        /\ rReq.method # "POST" => Answered(405, <<"Method Not Allowed">>)
        /\ (rReq.method = "POST" /\ NoContents(rReq.body))
              => Answered(400, <<"Invalid request body">>)
        /\ Answered(500, <<"API key not configured on the server.">>)
              => (rReq.method = "POST" /\ ~NoContents(rReq.body) /\ rCalls = <<>>)
        /\ rCalls # <<>> =>
              /\ rReq.method = "POST"
              /\ ~NoContents(rReq.body)
              /\ apiKey.t = "string" /\ Len(apiKey.s) > 0
              /\ rCalls[1].url = ApiUrl(apiKey)

\* C18 witness: a POST of {} with no credential configured got the 400.
C18_Witness ==
    /\ rPc = "done"
    /\ rReq.method = "POST"
    /\ rReq.body = Obj(<<>>)
    /\ apiKey = Undefined
    /\ Answered(400, <<"Invalid request body">>)

---------------------------------------------------------------------------
\* Properties of both handlers, checked under Spec

\* the Secure Relay's outbound call failed: the handler is done after the
\* call, and not by relaying a success
RelayCallFailed ==
    /\ rPc = "done"
    /\ Forwarded
    /\ ~(rUp # <<>> /\ rUp[1].ok /\ rRead # <<>>)

\* the response is a JSON body with an error field
IsErrorResponse(resp) == resp.how = "json" /\ "error" \in Fields(resp.body)

\* C12 as claimed: every failure of an outbound call ends the invocation
\* with one response that has a 4xx/5xx status and a JSON body with an
\* error field.
C12_FailureContained4xx5xx ==
    /\ (aPc = "done" /\ \E i \in Tasks : Failed(i)) =>
          /\ Len(aResp) = 1
          /\ IsErrorResponse(aResp[1])
          /\ aResp[1].status >= 400 /\ aResp[1].status <= 599
    /\ RelayCallFailed =>
          /\ Len(rResp) = 1
          /\ IsErrorResponse(rResp[1])
          /\ rResp[1].status >= 400 /\ rResp[1].status <= 599

\* job j is queued
Queued(j) == \E k \in 1..Len(aJobs) : aJobs[k] = j

\* the Aggregator's handler is on its way into its catch block: the join is
\* rejected and the handler's continuation is queued, or the join is still
\* pending and the job that rejects it is queued
CatchAhead ==
    \/ (aAll.st = "rejected" /\ Queued(ResumeJob))
    \/ (aAll.st = "pending" /\ \E i \in Tasks : Failed(i) /\ Queued(ReactJob(i)))

\* C12 as amended: every failure of an outbound call is caught and ends the
\* invocation with exactly one response with a JSON body with an error
\* field and a non-success status: 500 for the Aggregator, whose handler
\* is on its way into its catch block once a call has failed; for the
\* Secure Relay the upstream's own status when the upstream's error text was
\* read (any status outside 200..299), and 500 otherwise.
C12_FailureContained ==
    /\ (aPc = "awaitAll" /\ \E i \in Tasks : Failed(i)) => CatchAhead
    /\ (aPc = "done" /\ \E i \in Tasks : Failed(i)) =>
          /\ Len(aResp) = 1
          /\ IsErrorResponse(aResp[1])
          /\ aResp[1].status = 500
    /\ RelayCallFailed =>
          /\ Len(rResp) = 1
          /\ IsErrorResponse(rResp[1])
          /\ ~(rResp[1].status >= 200 /\ rResp[1].status <= 299)
          /\ rResp[1].status =
                IF rUp # <<>> /\ ~rUp[1].ok /\ rRead # <<>> THEN rUp[1].status ELSE 500

\* C12 witness: the upstream answered with a success status and a body that
\* is no JSON, and the client got the 500.
C12_Witness ==
    /\ RelayCallFailed
    /\ rUp # <<>> /\ rUp[1].ok
    /\ Len(rResp) = 1
    /\ rResp[1].status = 500

\* the number of outbound calls the Aggregator issued to source i
CallsTo(i) == Cardinality({k \in 1..Len(aCalls) : aCalls[k] = Sources[i].url})

\* C15: no retries.  Within one invocation the Aggregator issues at most
\* one call to each of its three sources and the Secure Relay at most one
\* outbound call, in every state, also after a call has failed.
C15_NoRetries ==
    /\ \A i \in Tasks : CallsTo(i) <= 1
    /\ Len(aCalls) <= 3
    /\ Len(rCalls) <= 1

\* C15 witness: the Secure Relay's call failed, the handler is done, and
\* the one call is all it issued.
C15_Witness ==
    /\ RelayCallFailed
    /\ Len(rCalls) = 1
    /\ Len(rResp) = 1

\* C20: exactly one response per invocation.  No invocation of either
\* handler ever sends more than one response, and, every issued outbound
\* call settling, every invocation sends one.  Checked under FairSpec.
C20_ExactlyOneResponse ==
    /\ [](Len(aResp) <= 1 /\ Len(rResp) <= 1)
    /\ (aPc # "idle") ~> (aPc = "done" /\ Len(aResp) = 1)
    /\ (rPc # "idle") ~> (rPc = "done" /\ Len(rResp) = 1)

\* C20 witness: all three calls of the Aggregator have settled, two of them
\* failed with different messages, and one response was sent.
C20_Witness ==
    /\ aPc = "done"
    /\ Len(aResp) = 1
    /\ \A i \in Tasks : Settled(i)
    /\ \E i, j \in Tasks : Failed(i) /\ Failed(j) /\ aTask[i].val # aTask[j].val

====
